---- MODULE Spec2Model ----
(***************************************************************************)
(* WaveNet training glue: train() of wavenet/train.py (checkpoint          *)
(* rotation, restore, loss logging), and the window cutting and one-hot    *)
(* encoding of wavenet/audio_data.py.                                      *)
(*                                                                         *)
(* File names and log tokens are sequences of one-character strings, so    *)
(* that str(), split() and int() are computed as the code computes them.   *)
(***************************************************************************)
EXTENDS Integers, Sequences, FiniteSets, TLC

(* ------------------------------ bounds -------------------------------- *)
MaxRuns == 2
MaxEpochs == 2
MaxCheckPoints == 2
MaxCheckPointEvery == 2
MaxPrintEvery == 3
NumBatches == 2
MaxLoss == 2
SeedEpoch == 9
MaxAudioLen == 4
MaxReceptiveField == 2
MaxWindowLength == 3
MaxChannels == 3
MaxPieceLen == 3

(* --------------------------- program constants ------------------------ *)
PrefixLen == 7
DefaultChannels == 256

None == "None"

(* ------------------------------ strings ------------------------------- *)
DigitChars == <<"0", "1", "2", "3", "4", "5", "6", "7", "8", "9">>

RECURSIVE str(_)
str(n) ==
  IF n < 10 THEN <<DigitChars[n + 1]>>
  ELSE str(n \div 10) \o <<DigitChars[(n % 10) + 1]>>

IsInt(s) ==
  /\ Len(s) > 0
  /\ \A i \in 1..Len(s) : \E d \in 1..10 : DigitChars[d] = s[i]

DigitVal(c) == (CHOOSE d \in 1..10 : DigitChars[d] = c) - 1

RECURSIVE int(_)
int(s) ==
  IF Len(s) = 1 THEN DigitVal(s[1])
  ELSE 10 * int(SubSeq(s, 1, Len(s) - 1)) + DigitVal(s[Len(s)])

Positions(s, ch) == {i \in 1..Len(s) : s[i] = ch}

Max(S) == CHOOSE x \in S : \A y \in S : y <= x
Min(S) == CHOOSE x \in S : \A y \in S : x <= y

\* s.split(ch)[0]
SplitFirst(s, ch) ==
  IF Positions(s, ch) = {} THEN s
  ELSE SubSeq(s, 1, Min(Positions(s, ch)) - 1)

\* s.split(ch)[-1]
SplitLast(s, ch) ==
  IF Positions(s, ch) = {} THEN s
  ELSE SubSeq(s, Max(Positions(s, ch)) + 1, Len(s))

\* s[n:]
DropFirst(s, n) == SubSeq(s, n + 1, Len(s))

EndsWith(s, suffix) ==
  /\ Len(s) >= Len(suffix)
  /\ SubSeq(s, Len(s) - Len(suffix) + 1, Len(s)) = suffix

ModelSuffix == <<".", "m", "o", "d", "e", "l">>

\* "wavenet" + str(num_iter) + ".model"
model_name(num_iter) ==
  <<"w", "a", "v", "e", "n", "e", "t">> \o str(num_iter) \o ModelSuffix

StrayFile == <<"R", "E", "A", "D", "M", "E">>

(* ------------------------------- state -------------------------------- *)
VARIABLES
  pc,                \* position of train(): idle, cuda_check, open_logs,
                     \* batch, epoch_end, done, raised
  err,               \* the exception train() ended with, or None
  runs,              \* number of invocations of train() so far
  train_params,      \* the parameters of the current run
  cuda_available,
  net,               \* the weights the run started from
  epoch_trained,
  restore_dir,       \* file name -> content, the files of restore_dir
  restore_dir_exists,
  log_dir,           \* file name -> sequence of lines
  log_dir_exists,
  open_files,        \* the log files the run holds open
  total_loss,
  num_trained,
  epoch,
  i_batch,
  stored_models,     \* the glob result of the latest checkpoint step
  removed,           \* the names the latest checkpoint step removed
  saved,             \* the names the latest checkpoint step saved to
  \* history of the current run
  ckpt_found,        \* what os.path.exists answered in load_model
  fs_at_start,       \* the file system when the run started
  num_at_start,      \* num_trained as read from the log
  run_batches,       \* training steps executed by this run
  run_saves,         \* <<k, name>> for every checkpoint this run saved
  window,            \* the losses added to total_loss since its last reset
  line_info          \* per line of loss_log.log: who wrote it and from what

trainVars == <<pc, err, runs, train_params, cuda_available, net,
               epoch_trained, restore_dir, restore_dir_exists, log_dir,
               log_dir_exists, open_files, total_loss, num_trained, epoch,
               i_batch, stored_models, removed, saved, ckpt_found,
               fs_at_start, num_at_start, run_batches, run_saves, window,
               line_info>>

\* audio_dataset.__getitem__
VARIABLES
  g_pc,              \* start, loop, returned
  raw_audio,         \* the samples that reach np.pad (amplitudes -1, 0, 1)
  receptive_field,
  window_length,
  audio,
  sample_list,
  iterations         \* passes through the body of the while loop

dataVars == <<g_pc, raw_audio, receptive_field, window_length, audio,
              sample_list, iterations>>

\* one_hot_encode
VARIABLES
  h_pc,              \* call, returned, raised
  sample_piece,
  cuda_flag,
  quantization_channels,
  piece_one_hot,     \* the returned tensor, indexed [1][c][t] from c, t = 0
  h_target,
  h_device,
  h_err

hotVars == <<h_pc, sample_piece, cuda_flag, quantization_channels,
             piece_one_hot, h_target, h_device, h_err>>

vars == <<trainVars, dataVars, hotVars>>

LossLog == "loss_log.log"
StoreLog == "store_log.log"

FileSystem ==
  [restore_dir |-> restore_dir, restore_dir_exists |-> restore_dir_exists,
   log_dir |-> log_dir, log_dir_exists |-> log_dir_exists]

EmptyDir == [f \in {} |-> 0]

\* The directory when the first run starts: absent, or left by earlier use.
SeedDirs ==
  {[exists |-> FALSE, files |-> EmptyDir],
   [exists |-> TRUE,
    files |-> [f \in {model_name(SeedEpoch), StrayFile} |-> <<0, 0>>]]}

RestoreModels == {<<>>, model_name(1), model_name(SeedEpoch)}
DeviceIds == {None, <<>>, <<0, 1>>}

\* The parameter files a run may be given.  Two families are explored: one
\* varies everything the checkpoint bookkeeping reads, the other everything
\* the loss log reads.
RotationParams ==
  [restore_model : RestoreModels, max_check_points : 0..MaxCheckPoints,
   check_point_every : 1..MaxCheckPointEvery, num_epochs : 0..MaxEpochs,
   print_every : {1}, device_ids : DeviceIds, batch_size : {2}]

LoggingParams ==
  [restore_model : {<<>>}, max_check_points : {1},
   check_point_every : {MaxCheckPointEvery}, num_epochs : 0..MaxEpochs,
   print_every : 1..MaxPrintEvery, device_ids : {None, <<>>},
   batch_size : {2}]

NoParams ==
  [restore_model |-> <<>>, max_check_points |-> 1, check_point_every |-> 1,
   num_epochs |-> 0, print_every |-> 1, device_ids |-> None,
   batch_size |-> 2]

InitTrain ==
  /\ pc = "idle"
  /\ err = None
  /\ runs = 0
  /\ train_params = NoParams
  /\ cuda_available = FALSE
  /\ net = None
  /\ epoch_trained = 0
  /\ \E d \in SeedDirs :
       /\ restore_dir = d.files
       /\ restore_dir_exists = d.exists
  /\ log_dir = EmptyDir
  /\ log_dir_exists = FALSE
  /\ open_files = {}
  /\ total_loss = 0
  /\ num_trained = 0
  /\ epoch = 0
  /\ i_batch = 0
  /\ stored_models = {}
  /\ removed = {}
  /\ saved = {}
  /\ ckpt_found = FALSE
  /\ fs_at_start = FileSystem
  /\ num_at_start = 0
  /\ run_batches = 0
  /\ run_saves = <<>>
  /\ window = <<>>
  /\ line_info = <<>>

(* ------------------------------ helpers ------------------------------- *)
\* os.path.exists(path + model_name)
PathExists(name) == restore_dir_exists /\ name \in DOMAIN restore_dir

\* train.py 97-101: whether a model is restored.  An empty restore_model is
\* falsy and load_model is not called; load_model answers None when
\* restore_dir + restore_model does not exist.
load_model(name) == name # <<>> /\ PathExists(name)

\* restore_model.split('.')[0][7:]
EpochText(name) == DropFirst(SplitFirst(name, "."), PrefixLen)

EpochTrainedFromName(found, name) ==
  IF IsInt(EpochText(name)) THEN int(EpochText(name)) ELSE 0

\* train.py 96-106: the epoch count a run starts from
EpochTrained(found, name) ==
  IF found /\ IsInt(EpochText(name)) THEN int(EpochText(name)) ELSE 0

\* the body of cmp before the subtraction
EpochOf(path) == int(DropFirst(SplitFirst(SplitLast(path, "/"), "."), PrefixLen))

Parses(path) == IsInt(DropFirst(SplitFirst(SplitLast(path, "/"), "."), PrefixLen))

\* the names compared as text: "wavenet10" sorts before "wavenet9"
RECURSIVE TextCmp(_, _)
TextCmp(x, y) ==
  IF x = <<>> \/ y = <<>> THEN Len(x) - Len(y)
  ELSE IF x[1] # y[1]
         THEN IF IsInt(<<x[1]>>) /\ IsInt(<<y[1]>>)
                THEN DigitVal(x[1]) - DigitVal(y[1])
                ELSE IF IsInt(<<x[1]>>) THEN 1 ELSE -1
         ELSE TextCmp(Tail(x), Tail(y))

\* train.py 203-210
cmp(x, y) == EpochOf(x) - EpochOf(y)

\* glob.glob(restore_dir + "*.model")
Glob(dir) == {f \in DOMAIN dir : EndsWith(f, ModelSuffix)}

\* the candidates for sorted(stored_models, key=cmp_to_key(cmp))[0]
First(models) == {f \in models : \A g \in models : cmp(f, g) <= 0}

ShouldDeleteWhenOver(n, max_check_points) == n > max_check_points

\* train.py 202
ShouldDelete(n, max_check_points) == n = max_check_points

IsCheckPointEpoch(e, check_point_every) == (e + 1) % check_point_every = 0

CheckPointNumberOfRun(trained, e) == e + 1

\* train.py 215: epoch_trained + epoch + 1
CheckPointNumber(trained, e) == trained + e + 1

CudaMisconfiguredIfTruthy(cuda, device_ids) ==
  cuda = FALSE /\ device_ids # None /\ device_ids # <<>>

\* train.py 113
CudaMisconfigured(cuda, device_ids) == cuda = FALSE /\ device_ids # None

ShouldLog(n, print_every) == n % print_every = 0

\* The tokens of a line of loss_log.log as line.split(' ') yields them; the
\* average is kept as the exact quotient <<numerator, denominator>>.
LossLine(n, total, print_every) ==
  <<"Trained", "over", str(n), "pieces,Average", "loss", "is",
    <<total, print_every>>>>

StoreLine(n) == <<"Epoch", str(n) \o <<",">>, "model", "saved!">>

NumTrainedFromFirstLine(lines) ==
  IF Len(lines) > 0 THEN int(lines[1][3]) ELSE 0

\* train.py 160-166: int(lines[-1].split(' ')[2]), 0 for an empty log
NumTrainedFromLog(lines) ==
  IF Len(lines) > 0 THEN int(lines[Len(lines)][3]) ELSE 0

\* f extended or overwritten at key k
Put(f, k, v) == [x \in DOMAIN f \cup {k} |-> IF x = k THEN v ELSE f[x]]

Without(f, ks) == [x \in DOMAIN f \ ks |-> f[x]]

RECURSIVE Sum(_)
Sum(s) == IF s = <<>> THEN 0 ELSE s[1] + Sum(Tail(s))

Raise(e) == pc' = "raised" /\ err' = e

(* ------------------------------ train() ------------------------------- *)
\* train.py 80-107: read the parameters, build the net, try to restore.
Start(params, cu) ==
  /\ pc = "idle"
  /\ runs < MaxRuns
  /\ runs' = runs + 1
  /\ train_params' = params
  /\ cuda_available' = cu
  /\ ckpt_found' = load_model(params.restore_model)
  /\ net' = IF load_model(params.restore_model)
              THEN restore_dir[params.restore_model] ELSE None
  /\ epoch_trained' =
       EpochTrained(load_model(params.restore_model), params.restore_model)
  /\ IF load_model(params.restore_model)
        /\ ~IsInt(EpochText(params.restore_model))
       THEN Raise("ValueError")
       ELSE pc' = "cuda_check" /\ err' = None
  /\ fs_at_start' = FileSystem
  /\ run_batches' = 0
  /\ run_saves' = <<>>
  /\ window' = <<>>
  /\ num_at_start' = 0
  /\ total_loss' = 0
  /\ num_trained' = 0
  /\ epoch' = 0
  /\ i_batch' = 0
  /\ stored_models' = {}
  /\ removed' = {}
  /\ saved' = {}
  /\ UNCHANGED <<restore_dir, restore_dir_exists, log_dir, log_dir_exists,
                 open_files, line_info>>
  /\ UNCHANGED <<dataVars, hotVars>>

\* train.py 113-122
CudaCheck ==
  /\ pc = "cuda_check"
  /\ IF CudaMisconfigured(cuda_available, train_params.device_ids)
       THEN Raise("ValueError")
       ELSE IF /\ cuda_available
               /\ train_params.device_ids # None
               /\ Len(train_params.device_ids) > 0
               /\ train_params.batch_size % Len(train_params.device_ids) # 0
              THEN Raise("AssertionError")
              ELSE pc' = "open_logs" /\ err' = None
  /\ UNCHANGED <<runs, train_params, cuda_available, net, epoch_trained,
                 restore_dir, restore_dir_exists, log_dir, log_dir_exists,
                 open_files, total_loss, num_trained, epoch, i_batch,
                 stored_models, removed, saved, ckpt_found, fs_at_start,
                 num_at_start, run_batches, run_saves, window, line_info>>
  /\ UNCHANGED <<dataVars, hotVars>>

\* train.py 149-167: make the directories, open both logs for appending,
\* read the trained count back from the last line of loss_log.log.
OpenLogs ==
  /\ pc = "open_logs"
  /\ log_dir_exists' = TRUE
  /\ restore_dir_exists' = TRUE
  /\ log_dir' =
       [f \in DOMAIN log_dir \cup {LossLog, StoreLog} |->
          IF f \in DOMAIN log_dir THEN log_dir[f] ELSE <<>>]
  /\ open_files' = {LossLog, StoreLog}
  /\ total_loss' = 0
  /\ num_trained' = NumTrainedFromLog(log_dir'[LossLog])
  /\ num_at_start' = num_trained'
  /\ epoch' = 0
  /\ i_batch' = 0
  /\ pc' = IF train_params.num_epochs = 0 THEN "done"
           ELSE IF NumBatches = 0 THEN "epoch_end" ELSE "batch"
  /\ UNCHANGED <<err, runs, train_params, cuda_available, net,
                 epoch_trained, restore_dir, stored_models, removed, saved,
                 ckpt_found, fs_at_start, run_batches, run_saves, window,
                 line_info>>
  /\ UNCHANGED <<dataVars, hotVars>>

\* train.py 170-193: one training step and its logging
TrainBatch(loss) ==
  /\ pc = "batch"
  /\ run_batches' = run_batches + 1
  /\ num_trained' = num_trained + 1
  /\ IF ShouldLog(num_trained + 1, train_params.print_every)
       THEN /\ log_dir' =
                 [log_dir EXCEPT ![LossLog] =
                    Append(@, LossLine(num_trained + 1, total_loss + loss,
                                       train_params.print_every))]
            /\ line_info' =
                 Append(line_info,
                        [run |-> runs, print_every |-> train_params.print_every,
                         losses |-> Append(window, loss)])
            /\ total_loss' = 0
            /\ window' = <<>>
       ELSE /\ total_loss' = total_loss + loss
            /\ window' = Append(window, loss)
            /\ UNCHANGED <<log_dir, line_info>>
  /\ i_batch' = IF i_batch + 1 = NumBatches THEN 0 ELSE i_batch + 1
  /\ pc' = IF i_batch + 1 = NumBatches THEN "epoch_end" ELSE "batch"
  /\ UNCHANGED <<err, runs, train_params, cuda_available, net,
                 epoch_trained, restore_dir, restore_dir_exists,
                 log_dir_exists, open_files, epoch, stored_models, removed,
                 saved, ckpt_found, fs_at_start, num_at_start, run_saves>>
  /\ UNCHANGED <<dataVars, hotVars>>

NextEpoch ==
  /\ epoch' = epoch + 1
  /\ i_batch' = 0
  /\ pc' = IF epoch + 1 = train_params.num_epochs THEN "done"
           ELSE IF NumBatches = 0 THEN "epoch_end" ELSE "batch"

\* train.py 198-220: the checkpoint step of an epoch that stores a model
CheckPoint ==
  /\ pc = "epoch_end"
  /\ IsCheckPointEpoch(epoch, train_params.check_point_every)
  /\ stored_models' = Glob(restore_dir)
  /\ LET models == Glob(restore_dir)
         name == model_name(CheckPointNumber(epoch_trained, epoch))
         content == <<runs, CheckPointNumber(epoch_trained, epoch)>>
     IN IF ShouldDelete(Cardinality(models), train_params.max_check_points)
          THEN IF models = {}
                 THEN /\ Raise("IndexError")
                      /\ UNCHANGED <<restore_dir, log_dir, run_saves, epoch,
                                     i_batch>>
                      /\ removed' = {}
                      /\ saved' = {}
                 ELSE IF Cardinality(models) > 1
                         /\ \E f \in models : ~Parses(f)
                        THEN /\ Raise("ValueError")
                             /\ UNCHANGED <<restore_dir, log_dir, run_saves,
                                            epoch, i_batch>>
                             /\ removed' = {}
                             /\ saved' = {}
                        ELSE \E oldest \in
                                 (IF Cardinality(models) = 1 THEN models
                                  ELSE First(models)) :
                               /\ removed' = {oldest}
                               /\ saved' = {name}
                               /\ restore_dir' =
                                    Put(Without(restore_dir, {oldest}),
                                        name, content)
                               /\ log_dir' =
                                    [log_dir EXCEPT ![StoreLog] =
                                       Append(@, StoreLine(
                                         CheckPointNumber(epoch_trained,
                                                          epoch)))]
                               /\ run_saves' =
                                    Append(run_saves,
                                           <<epoch + 1, name>>)
                               /\ NextEpoch
                               /\ err' = None
          ELSE /\ removed' = {}
               /\ saved' = {name}
               /\ restore_dir' = Put(restore_dir, name, content)
               /\ log_dir' =
                    [log_dir EXCEPT ![StoreLog] =
                       Append(@, StoreLine(CheckPointNumber(epoch_trained,
                                                            epoch)))]
               /\ run_saves' =
                    Append(run_saves,
                           <<epoch + 1, name>>)
               /\ NextEpoch
               /\ err' = None
  /\ UNCHANGED <<runs, train_params, cuda_available, net, epoch_trained,
                 restore_dir_exists, log_dir_exists, open_files, total_loss,
                 num_trained, ckpt_found, fs_at_start, num_at_start,
                 run_batches, window, line_info>>
  /\ UNCHANGED <<dataVars, hotVars>>

\* train.py 198: an epoch that stores nothing
SkipCheckPoint ==
  /\ pc = "epoch_end"
  /\ ~IsCheckPointEpoch(epoch, train_params.check_point_every)
  /\ NextEpoch
  /\ UNCHANGED <<err, runs, train_params, cuda_available, net,
                 epoch_trained, restore_dir, restore_dir_exists, log_dir,
                 log_dir_exists, open_files, total_loss, num_trained,
                 stored_models, removed, saved, ckpt_found, fs_at_start,
                 num_at_start, run_batches, run_saves, window, line_info>>
  /\ UNCHANGED <<dataVars, hotVars>>

\* train.py 221-222
Return ==
  /\ pc = "done"
  /\ pc' = "idle"
  /\ open_files' = {}
  /\ UNCHANGED <<err, runs, train_params, cuda_available, net,
                 epoch_trained, restore_dir, restore_dir_exists, log_dir,
                 log_dir_exists, total_loss, num_trained, epoch, i_batch,
                 stored_models, removed, saved, ckpt_found, fs_at_start,
                 num_at_start, run_batches, run_saves, window, line_info>>
  /\ UNCHANGED <<dataVars, hotVars>>

\* the exception leaves train(); the process ends and its files are closed
Abort ==
  /\ pc = "raised"
  /\ pc' = "idle"
  /\ open_files' = {}
  /\ UNCHANGED <<err, runs, train_params, cuda_available, net,
                 epoch_trained, restore_dir, restore_dir_exists, log_dir,
                 log_dir_exists, total_loss, num_trained, epoch, i_batch,
                 stored_models, removed, saved, ckpt_found, fs_at_start,
                 num_at_start, run_batches, run_saves, window, line_info>>
  /\ UNCHANGED <<dataVars, hotVars>>

NextRotation ==
  \/ \E params \in RotationParams, cu \in BOOLEAN : Start(params, cu)
  \/ CudaCheck
  \/ OpenLogs
  \/ TrainBatch(1)
  \/ CheckPoint
  \/ SkipCheckPoint
  \/ Return
  \/ Abort

NextLogging ==
  \/ \E params \in LoggingParams : Start(params, FALSE)
  \/ CudaCheck
  \/ OpenLogs
  \/ \E loss \in 1..MaxLoss : TrainBatch(loss)
  \/ CheckPoint
  \/ SkipCheckPoint
  \/ Return
  \/ Abort

(* ------------------- audio_dataset.__getitem__ ------------------------ *)
Amplitudes == {-1, 0, 1}

RECURSIVE SeqsUpTo(_, _)
SeqsUpTo(S, n) ==
  IF n = 0 THEN {<<>>}
  ELSE LET shorter == SeqsUpTo(S, n - 1)
       IN shorter \cup {Append(q, x) : q \in shorter, x \in S}

\* np.pad(audio, [[n, 0]], 'constant')
PadLeft(s, n) == [i \in 1..n |-> 0] \o s

\* mu-law companding of an amplitude in {-1, 0, 1} to 0..channels-1:
\* floor((sign(x) * ln(1 + mu|x|) / ln(1 + mu) + 1) / 2 * mu + 0.5), mu = channels - 1
mu_law_encode(s, channels) ==
  [i \in 1..Len(s) |->
     IF s[i] = -1 THEN 0
     ELSE IF s[i] = 0 THEN channels \div 2
     ELSE channels - 1]

\* s[:k]
SliceTo(s, k) ==
  IF k >= 0 THEN SubSeq(s, 1, IF k < Len(s) THEN k ELSE Len(s))
  ELSE SubSeq(s, 1, Len(s) + k)

\* s[k:], k >= 0
SliceFrom(s, k) == SubSeq(s, k + 1, Len(s))

PieceEnd(field, length) == field + length - 1

LoopConditionOffByOne(s, field) == Len(s) > field + 1

\* audio_data.py 60
LoopCondition(s, field) == Len(s) > field

Ceil(a, b) == (a + b - 1) \div b

InitData ==
  /\ g_pc = "start"
  /\ raw_audio \in SeqsUpTo(Amplitudes, MaxAudioLen)
  /\ receptive_field \in 0..MaxReceptiveField
  /\ window_length \in 1..MaxWindowLength
  /\ audio = <<>>
  /\ sample_list = <<>>
  /\ iterations = 0

DataAtRest ==
  /\ g_pc = "start"
  /\ raw_audio = <<>>
  /\ receptive_field = 0
  /\ window_length = 1
  /\ audio = <<>>
  /\ sample_list = <<>>
  /\ iterations = 0

\* audio_data.py 51-59
PadAndEncode ==
  /\ g_pc = "start"
  /\ audio' = mu_law_encode(PadLeft(raw_audio, receptive_field),
                            DefaultChannels)
  /\ sample_list' = <<>>
  /\ g_pc' = "loop"
  /\ UNCHANGED <<raw_audio, receptive_field, window_length, iterations>>
  /\ UNCHANGED <<trainVars, hotVars>>

\* audio_data.py 60-65: one pass through the loop body
Cut ==
  /\ g_pc = "loop"
  /\ LoopCondition(audio, receptive_field)
  /\ sample_list' =
       Append(sample_list,
              [audio_piece |->
                 SliceTo(audio, PieceEnd(receptive_field, window_length)),
               audio_target |-> SliceTo(audio, window_length)])
  /\ audio' = SliceFrom(audio, window_length)
  /\ iterations' = iterations + 1
  /\ UNCHANGED <<g_pc, raw_audio, receptive_field, window_length>>
  /\ UNCHANGED <<trainVars, hotVars>>

\* audio_data.py 60, 66: the loop condition fails
ReturnSamples ==
  /\ g_pc = "loop"
  /\ ~LoopCondition(audio, receptive_field)
  /\ g_pc' = "returned"
  /\ UNCHANGED <<raw_audio, receptive_field, window_length, audio,
                 sample_list, iterations>>
  /\ UNCHANGED <<trainVars, hotVars>>

NextData ==
  \/ PadAndEncode
  \/ Cut
  \/ ReturnSamples

(* -------------------------- one_hot_encode ---------------------------- *)
\* tensor.squeeze(): a one-element tensor becomes a 0-d tensor
squeeze(t) == IF Len(t) = 1 THEN [scalar |-> t[1]] ELSE t

IsScalar(t) == DOMAIN t = {"scalar"}

\* np.zeros((rows, cols)), indexed from 0
zeros(rows, cols) == [r \in 0..(rows - 1) |-> [c \in 0..(cols - 1) |-> 0]]

\* m[np.arange(piece_len), piece] = 1.0
SetOnes(m, piece) ==
  [r \in DOMAIN m |->
     [c \in DOMAIN m[r] |-> IF c = piece[r + 1] THEN 1 ELSE m[r][c]]]

\* the row-major buffer of a rows x cols array
Flat(m, rows, cols) ==
  [k \in 0..(rows * cols - 1) |-> m[k \div cols][k % cols]]

\* m.reshape(1, d1, d2): the same buffer read with the new shape
reshape(m, rows, cols, d1, d2) ==
  <<[c \in 0..(d1 - 1) |->
       [t \in 0..(d2 - 1) |-> Flat(m, rows, cols)[c * d2 + t]]]>>

Pieces(channels) == SeqsUpTo(0..(channels - 1), MaxPieceLen) \ {<<>>}

InitHot ==
  /\ h_pc = "call"
  /\ quantization_channels \in 2..MaxChannels
  /\ \E piece \in Pieces(quantization_channels),
        target \in {<<0>>, <<1, 0>>} :
       sample_piece = [audio_piece |-> piece, audio_target |-> target]
  /\ cuda_flag \in BOOLEAN
  /\ piece_one_hot = <<>>
  /\ h_target = <<>>
  /\ h_device = "cpu"
  /\ h_err = None

HotAtRest ==
  /\ h_pc = "call"
  /\ quantization_channels = 2
  /\ sample_piece = [audio_piece |-> <<0, 0>>, audio_target |-> <<0>>]
  /\ cuda_flag = FALSE
  /\ piece_one_hot = <<>>
  /\ h_target = <<>>
  /\ h_device = "cpu"
  /\ h_err = None

\* audio_data.py 88-100
OneHotEncode ==
  /\ h_pc = "call"
  /\ LET piece == squeeze(sample_piece.audio_piece)
         target == squeeze(sample_piece.audio_target)
     IN IF IsScalar(piece)
          THEN /\ h_pc' = "raised"
               /\ h_err' = "IndexError"
               /\ UNCHANGED <<piece_one_hot, h_target, h_device>>
          ELSE /\ piece_one_hot' =
                    reshape(SetOnes(zeros(Len(piece), quantization_channels),
                                    piece),
                            Len(piece), quantization_channels,
                            quantization_channels, Len(piece))
               /\ h_target' = target
               /\ h_device' = IF cuda_flag THEN "cuda" ELSE "cpu"
               /\ h_pc' = "returned"
               /\ h_err' = None
  /\ UNCHANGED <<sample_piece, cuda_flag, quantization_channels>>
  /\ UNCHANGED <<trainVars, dataVars>>

NextHot == OneHotEncode

(* --------------------------- specifications --------------------------- *)
Init == InitTrain /\ DataAtRest /\ HotAtRest

SpecRotation == Init /\ [][NextRotation]_vars

SpecLogging == Init /\ [][NextLogging]_vars

TrainAtRest == InitTrain /\ restore_dir_exists = FALSE

DataInit == TrainAtRest /\ InitData /\ HotAtRest

\* __getitem__ runs to its return once called
SpecData == DataInit /\ [][NextData]_vars /\ WF_vars(NextData)

HotInit == TrainAtRest /\ DataAtRest /\ InitHot

SpecHot == HotInit /\ [][NextHot]_vars

(* ------------------------------ claims -------------------------------- *)
\* The largest epoch number a checkpoint name or a log count can carry.
LargestNumber == SeedEpoch + MaxRuns * MaxEpochs * (NumBatches + 1)

\* The number a name carries, read off the names save_model can write.
NumberOfName(f) == CHOOSE n \in 0..LargestNumber : model_name(n) = f

\* The count a log token carries.
NumberOfText(t) == CHOOSE n \in 0..LargestNumber : str(n) = t

CheckPointFiles(dir) == {f \in DOMAIN dir : \E n \in 0..LargestNumber : model_name(n) = f}

StartedWithinLimit ==
  Cardinality(CheckPointFiles(fs_at_start.restore_dir))
    <= train_params.max_check_points

\* C1: a run that starts with at most max_check_points checkpoint files in
\* restore_dir never leaves more than max_check_points of them there, after
\* any checkpoint step, whatever num_epochs and check_point_every are.
C1_AtMostMaxCheckPoints ==
  (runs >= 1 /\ StartedWithinLimit) =>
    Cardinality(CheckPointFiles(restore_dir)) <= train_params.max_check_points

C1_Witness ==
  /\ StartedWithinLimit
  /\ train_params.max_check_points = 2
  /\ Cardinality(CheckPointFiles(restore_dir)) = 2
  /\ removed # {}
  /\ saved # {}
  /\ epoch = 2

\* C2: a checkpoint step that deletes a file deletes exactly one, the
\* checkpoint with the smallest epoch number then in restore_dir; every
\* other file that was there stays as it was, and the only name added or
\* overwritten is the name of the checkpoint just saved.
C2_DeletesOnlyTheOldest ==
  [][(/\ pc = "epoch_end"
      /\ IsCheckPointEpoch(epoch, train_params.check_point_every)
      /\ removed' # {})
     =>
     (/\ Cardinality(removed') = 1
      /\ \A f \in removed' :
           /\ f \in CheckPointFiles(restore_dir)
           /\ \A g \in CheckPointFiles(restore_dir) :
                NumberOfName(f) <= NumberOfName(g)
      /\ saved' = {model_name(epoch_trained + epoch + 1)}
      /\ \A g \in DOMAIN restore_dir \ (removed' \cup saved') :
           g \in DOMAIN restore_dir' /\ restore_dir'[g] = restore_dir[g]
      /\ \A g \in DOMAIN restore_dir' \ saved' :
           g \in DOMAIN restore_dir /\ restore_dir'[g] = restore_dir[g]
      /\ \A g \in removed' \ saved' : g \notin DOMAIN restore_dir')]_vars

C2_Witness ==
  /\ removed = {model_name(SeedEpoch)}
  /\ saved = {model_name(SeedEpoch + 2)}
  /\ model_name(SeedEpoch + 1) \in DOMAIN restore_dir
  /\ StrayFile \in DOMAIN restore_dir

RestoredNumber ==
  IF /\ train_params.restore_model # <<>>
     /\ fs_at_start.restore_dir_exists
     /\ train_params.restore_model \in DOMAIN fs_at_start.restore_dir
    THEN NumberOfName(train_params.restore_model)
    ELSE 0

RestoreModelMissing ==
  /\ train_params.restore_model # <<>>
  /\ ~(/\ fs_at_start.restore_dir_exists
       /\ train_params.restore_model \in DOMAIN fs_at_start.restore_dir)

\* C4: when restore_model is configured and restore_dir + restore_model
\* does not exist, load_model answers None, nothing is raised by it, the run
\* goes on with a fresh model and epoch_trained = 0, and the first checkpoint
\* the run saves is numbered check_point_every.
C4_MissingCheckPointStartsFresh ==
  (runs >= 1 /\ RestoreModelMissing) =>
    /\ ckpt_found = FALSE
    /\ net = None
    /\ epoch_trained = 0
    /\ pc = "cuda_check" => err = None
    /\ run_saves # <<>> =>
         run_saves[1] =
           <<train_params.check_point_every,
             model_name(train_params.check_point_every)>>

C4_Witness ==
  /\ RestoreModelMissing
  /\ train_params.restore_model = model_name(SeedEpoch)
  /\ train_params.check_point_every = 2
  /\ run_saves # <<>>

\* C5: without CUDA and with device_ids not None, train() raises a
\* ValueError before it has executed a training step, created log_dir or
\* restore_dir, created or opened a log file, or written or deleted a
\* checkpoint.
C5_CudaErrorBeforeAnyEffect ==
  (/\ runs >= 1
   /\ cuda_available = FALSE
   /\ train_params.device_ids # None
   /\ pc # "cuda_check")
  =>
  (/\ pc \in {"raised", "idle"}
   /\ err = "ValueError"
   /\ run_batches = 0
   /\ open_files = {}
   /\ FileSystem = fs_at_start
   /\ saved = {}
   /\ removed = {})

C5_Witness ==
  /\ pc = "raised"
  /\ err = "ValueError"
  /\ cuda_available = FALSE
  /\ train_params.device_ids = <<>>
  /\ train_params.num_epochs > 0
  /\ ~restore_dir_exists

\* C6: at every checkpoint step at which the number of checkpoint files in
\* restore_dir has reached or is over max_check_points, the oldest one is
\* removed before the new one is stored, also when restore_dir held more
\* than max_check_points of them when the run started.
C6_RemovesWhenReachedOrOver ==
  (/\ saved # {}
   /\ Cardinality(stored_models) >= train_params.max_check_points)
  => removed # {}

\* C7: every sample __getitem__ returns has an audio_piece of length
\* window_length + receptive_field.
C7_PieceLength ==
  \A i \in DOMAIN sample_list :
    Len(sample_list[i].audio_piece) = window_length + receptive_field

\* C8: one_hot_encode returns a tensor of shape (1, quantization_channels,
\* piece_len) whose entry [0, c, t] is 1 exactly for c = piece[t] and 0 for
\* every other channel.
C8_OneHot ==
  h_pc = "returned" =>
    LET piece == sample_piece.audio_piece
    IN /\ Len(piece_one_hot) = 1
       /\ DOMAIN piece_one_hot[1] = 0..(quantization_channels - 1)
       /\ \A c \in 0..(quantization_channels - 1) :
            /\ DOMAIN piece_one_hot[1][c] = 0..(Len(piece) - 1)
            /\ \A t \in 0..(Len(piece) - 1) :
                 piece_one_hot[1][c][t] = (IF c = piece[t + 1] THEN 1 ELSE 0)

LossLines == IF LossLog \in DOMAIN log_dir THEN log_dir[LossLog] ELSE <<>>

LossLinesAtStart ==
  IF LossLog \in DOMAIN fs_at_start.log_dir
    THEN fs_at_start.log_dir[LossLog] ELSE <<>>

CountOfLine(line) == NumberOfText(line[3])

InTrainingLoop == pc \in {"batch", "epoch_end", "done"}

C10_LoopTerminates ==
  <>(/\ g_pc = "returned"
     /\ iterations = Ceil(Len(raw_audio), window_length)
     /\ Len(sample_list) = iterations
     /\ Len(audio) <= receptive_field)

C10_Witness ==
  /\ g_pc = "returned"
  /\ Len(raw_audio) = 4
  /\ window_length = 3
  /\ receptive_field = 2
  /\ iterations = 2
  /\ Len(audio) = 0
====
